---------------------------- MODULE Spec2Model ----------------------------
(***************************************************************************)
(* A model of the pitch-detection core of the Karaoke practice tool:       *)
(*   - yin            (audio/yin.ts)         single-frame F0 estimator     *)
(*   - PitchTracker   (audio/pitchTracker.ts) requestAnimationFrame loop   *)
(*   - medianFilter   (utils/smoothing.ts)                                 *)
(*   - segmentation   (FileMelodyExtractor.tsx, Generator.tsx)             *)
(*   - note names     (utils/music.ts)                                     *)
(*   - live history   (App.tsx, the onData callback of startPractice)      *)
(*                                                                         *)
(* Numbers.  JavaScript numbers are modelled as exact rationals <<n, d>>   *)
(* in lowest terms with d > 0; <<0, 0>> is NaN, <<1, 0>> is +Infinity and  *)
(* <<-1, 0>> is -Infinity.  Rounding of the 32/64-bit floats is not        *)
(* modelled.  null is the empty tuple; an optional record is <<r>> or <<>>. *)
(***************************************************************************)
EXTENDS Integers, Sequences, FiniteSets, TLC

VARIABLES
    \* ---- yin harness: one call of yin(frame, cfg)
    frame,        \* the Float32Array handed to yin, as a sequence of integers
    cfg,          \* the YinConfig handed to yin
    yinOut,       \* <<the call's outcome>>; Null before the call
    \* ---- PitchTracker instance and the browser's animation-frame queue
    rafId,        \* PitchTracker.rafId: <<handle>>, or Null
    startedAt,    \* PitchTracker.startedAt
    startOffset,  \* PitchTracker.startOffset
    lastEma,      \* PitchTracker.lastEma
    now,          \* AudioContext.currentTime
    nextHandle,   \* the next handle requestAnimationFrame will return
    pending,      \* callbacks in the browser's animation-frame list
    inTick,       \* <<the scheduled callback that is executing>>; Null when none
    emitted,      \* <<the last PitchPoint passed to onData>>; Null before the first
    runs,         \* history: the number of start() calls made so far
    stopped,      \* history: stop() has returned and start() was not called since
    startClock,   \* history: AudioContext.currentTime at the last start() call
    emittedRun,   \* history: the value of runs when emitted was passed to onData
    live,         \* App's live state: the PitchPoints kept for the piano roll
    \* ---- batch extraction (handleFile, analyzePart)
    f0,           \* the raw per-hop F0 sequence: Hz, or Null where yin gave null
    sr,           \* audio.sampleRate of the decoded buffer
    f0Med,        \* <<medianFilter's output>>; Null before the call
    notesHF,      \* <<the notes handleFile committed>>; Null before it ran
    notesAP,      \* <<the notes analyzePart committed>>; Null before it ran
    \* ---- medianFilter harness: one call of medianFilter(mfArr, mfWin)
    mfArr,        \* the number[] handed to medianFilter
    mfWin,        \* the window width handed to medianFilter
    mfOut,        \* <<the array returned>>; Null before the call
    \* ---- note-name harness: midiToNoteName(midi) and midiToSolfeggio(midi)
    midi,         \* the MIDI number handed to both functions
    noteName,     \* <<what midiToNoteName returned>>; Null before the call
    solfeggio,    \* <<what midiToSolfeggio returned>>; Null before the call
    \* ---- framing harness: the loops that cut the decoded buffer into frames
    bufLen,       \* ch0.length
    startsHF,     \* <<the offsets handleFile ran yin at>>; Null before the loop
    startsAP,     \* <<the offsets analyzePart ran yin at>>; Null before the loop
    \* ---- App: the refs and state startPractice and stopPractice work on
    app           \* a record of them, see AppIdle

yinVars == <<frame, cfg, yinOut>>
trackerVars == <<rafId, startedAt, startOffset, lastEma, now, nextHandle,
                 pending, inTick, emitted, runs, stopped, startClock,
                 emittedRun, live>>
batchVars == <<f0, sr, f0Med, notesHF, notesAP>>
medianVars == <<mfArr, mfWin, mfOut>>
musicVars == <<midi, noteName, solfeggio>>
frameVars == <<bufLen, startsHF, startsAP>>
extraVars == <<frameVars, app>>
utilVars == <<medianVars, musicVars, extraVars>>
vars == <<yinVars, trackerVars, batchVars, utilVars>>

Null == <<>>

---------------------------------------------------------------------------
(* Bounds of the model *)

MaxFrameLen == 5     \* longest frame handed to yin
MaxSample == 1       \* samples range over -MaxSample..MaxSample
ClockStep == 20      \* seconds between two values of AudioContext.currentTime
MaxClock == 2        \* AudioContext.currentTime goes up to MaxClock * ClockStep
MaxOffset == 1       \* start offsets go up to MaxOffset * ClockStep
MaxRuns == 2         \* start() calls made on the tracker
MaxHandle == 4       \* handles requestAnimationFrame hands out
MaxFrames == 6       \* longest per-hop F0 sequence of the batch path
MaxMedianLen == 5    \* longest array handed to medianFilter on its own
MaxWin == 4          \* window widths handed to medianFilter range over 1..MaxWin
MaxMidi == 70        \* MIDI numbers range over -MaxMidi..MaxMidi, in halves
MaxBufLen == 4096    \* longest decoded buffer handed to the framing loops
MaxStarts == 3       \* startPractice invocations, hence sources and trackers

---------------------------------------------------------------------------
(* JavaScript numbers as rationals *)

Abs(x) == IF x < 0 THEN -x ELSE x
Sign(x) == IF x < 0 THEN -1 ELSE IF x > 0 THEN 1 ELSE 0
Min(a, b) == IF a < b THEN a ELSE b
Max(a, b) == IF a > b THEN a ELSE b

RECURSIVE GCD(_, _)
GCD(a, b) == IF b = 0 THEN a ELSE GCD(b, a % b)

NaN == <<0, 0>>
\* n / d as a JavaScript division of two integers
Rat(n, d) ==
    IF d = 0 THEN <<Sign(n), 0>>
    ELSE LET g == GCD(Abs(n), Abs(d))
         IN  <<Sign(d) * (n \div g), Abs(d) \div g>>
RInt(n) == <<n, 1>>
IsNaN(x) == x = NaN
IsFinite(x) == x # Null /\ x[2] # 0            \* Number.isFinite
\* The sums and products below divide out common factors before they
\* multiply, which keeps the intermediate integers small
RAdd(x, y) ==
    IF x[2] = 0 \/ y[2] = 0 THEN NaN
    ELSE LET g == GCD(x[2], y[2])
         IN  Rat(x[1] * (y[2] \div g) + y[1] * (x[2] \div g), (x[2] \div g) * y[2])
RNeg(x) == <<0 - x[1], x[2]>>
RSub(x, y) == RAdd(x, RNeg(y))
RMul(x, y) ==
    IF x[2] = 0 \/ y[2] = 0 THEN NaN
    ELSE LET g1 == GCD(Abs(x[1]), y[2])
             g2 == GCD(Abs(y[1]), x[2])
         IN  Rat((x[1] \div g1) * (y[1] \div g2), (x[2] \div g2) * (y[2] \div g1))
RDiv(x, y) ==
    IF x[2] = 0 \/ y[2] = 0 THEN NaN
    ELSE IF y[1] = 0 THEN <<Sign(x[1]), 0>>
    ELSE RMul(x, <<Sign(y[1]) * y[2], Abs(y[1])>>)
\* x < y; false when either side is NaN (or undefined)
RLt(x, y) ==
    /\ ~IsNaN(x) /\ ~IsNaN(y)
    /\ IF x[2] = 0 \/ y[2] = 0
       THEN \/ (x[2] = 0 /\ x[1] < 0 /\ y # x)
            \/ (y[2] = 0 /\ y[1] > 0 /\ y # x)
       ELSE LET g == GCD(x[2], y[2])
            IN  x[1] * (y[2] \div g) < y[1] * (x[2] \div g)
RLe(x, y) == /\ ~IsNaN(x) /\ ~IsNaN(y)
             /\ (x = y \/ RLt(x, y))

---------------------------------------------------------------------------
(* yin.ts *)

\* Math.floor(sr / (cfg.maxFreq ?? 1200)), Math.floor(sr / (cfg.minFreq ?? 50))
MinLag(c) == c.sampleRate \div c.maxFreq
MaxLag(c) == c.sampleRate \div c.minFreq
\* N = Math.min(frame.length, maxLag * 2)
FrameN(f, c) == Min(Len(f), MaxLag(c) * 2)

\* the inner loop: sum over i, i + tau < N, of (frame[i] - frame[i + tau])^2
RECURSIVE SumSq(_, _, _, _)
SumSq(f, tau, i, n) ==
    IF i + tau < n
    THEN (f[i + 1] - f[i + tau + 1]) * (f[i + 1] - f[i + tau + 1])
         + SumSq(f, tau, i + 1, n)
    ELSE 0

\* diff after the first loop: a Float32Array(maxLag + 1), zero where the loop
\* did not write; a write outside the array is dropped
YinDiff(f, c) ==
    [tau \in 0..MaxLag(c) |->
        IF tau >= MinLag(c) THEN SumSq(f, tau, 0, FrameN(f, c)) ELSE 0]

RECURSIVE RunningSum(_, _)
RunningSum(diff, tau) == IF tau < 1 THEN 0 ELSE diff[tau] + RunningSum(diff, tau - 1)

\* A faulty variant of CmndValue, against which C5 is tested: a zero running
\* sum yields 0 instead of 0 / 0
CmndValueZeroSumIsZero(diff, tau) ==
    IF RunningSum(diff, tau) = 0 THEN RInt(0)
    ELSE Rat(diff[tau] * tau, RunningSum(diff, tau))

\* cmnd[tau] = diff[tau] * tau / runningSum  (0 / 0 is NaN)
CmndValue(diff, tau) == Rat(diff[tau] * tau, RunningSum(diff, tau))

\* cmnd after the second loop; cmnd[0] = 1
YinCmnd(f, c) ==
    LET diff == YinDiff(f, c)
    IN  [tau \in 0..MaxLag(c) |-> IF tau = 0 THEN RInt(1) ELSE CmndValue(diff, tau)]

\* a read of cmnd[t]; outside the array it is undefined, which compares as NaN
CmndAt(cmnd, t) == IF t \in DOMAIN cmnd THEN cmnd[t] ELSE NaN

\* A faulty variant of YinSearch, against which C18 is tested: it takes the
\* lag below the threshold whose cmnd is smallest
YinSearchBest(cmnd, c) ==
    LET below == {t \in MinLag(c)..MaxLag(c) : RLt(CmndAt(cmnd, t), c.threshold)}
    IN  IF below = {} THEN -1
        ELSE CHOOSE t \in below :
                 \A u \in below :
                     \/ RLt(CmndAt(cmnd, t), CmndAt(cmnd, u))
                     \/ (CmndAt(cmnd, t) = CmndAt(cmnd, u) /\ t <= u)

\* the threshold search: the first t in minLag..maxLag with cmnd[t] < threshold,
\* or -1
YinSearch(cmnd, c) ==
    LET below == {t \in MinLag(c)..MaxLag(c) : RLt(CmndAt(cmnd, t), c.threshold)}
    IN  IF below = {} THEN -1
        ELSE CHOOSE t \in below : \A u \in below : t <= u

\* parabolic refinement of the chosen lag
YinBetterTau(cmnd, c, tau) ==
    IF tau + 1 <= MaxLag(c) /\ tau - 1 >= MinLag(c)
    THEN LET s0 == CmndAt(cmnd, tau - 1)
             s1 == CmndAt(cmnd, tau)
             s2 == CmndAt(cmnd, tau + 1)
             denom == RSub(RSub(RMul(RInt(2), s1), s2), s0)
         IN  IF denom # RInt(0)
             THEN RAdd(RInt(tau), RDiv(RSub(s2, s0), RMul(RInt(2), denom)))
             ELSE RInt(tau)
    ELSE RInt(tau)

\* A faulty variant of YinProbability, against which C8 is tested: it reads
\* the lag before the chosen one
YinProbabilityAtPreviousLag(cmnd, tau) == RSub(RInt(1), CmndAt(cmnd, tau - 1))

\* A faulty variant of YinProbability, against which C25 is tested: cmnd
\* itself is taken for the probability
YinProbabilityIsCmnd(cmnd, tau) == CmndAt(cmnd, tau)

\* probability = 1 - cmnd[tau]
YinProbability(cmnd, tau) == RSub(RInt(1), CmndAt(cmnd, tau))

\* sr / betterTau
YinFreq(c, betterTau) == RDiv(RInt(c.sampleRate), betterTau)

\* yin(frame, cfg): status "RangeError" when new Float32Array(maxLag + 1) throws
Yin(f, c) ==
    IF MaxLag(c) + 1 < 0
    THEN [status |-> "RangeError", freqHz |-> Null, probability |-> NaN,
          tau |-> -1, lagsComputed |-> FALSE]
    ELSE LET cmnd == YinCmnd(f, c)
             tau == YinSearch(cmnd, c)
         IN  IF tau = -1
             THEN [status |-> "ok", freqHz |-> Null, probability |-> RInt(0),
                   tau |-> tau, lagsComputed |-> TRUE]
             ELSE LET probability == YinProbability(cmnd, tau)
                      freq == YinFreq(c, YinBetterTau(cmnd, c, tau))
                  IN  IF RLt(probability, c.probabilityThreshold)
                      THEN [status |-> "ok", freqHz |-> Null,
                            probability |-> probability, tau |-> tau,
                            lagsComputed |-> TRUE]
                      ELSE [status |-> "ok", freqHz |-> freq,
                            probability |-> probability, tau |-> tau,
                            lagsComputed |-> TRUE]

---------------------------------------------------------------------------
(* The inputs of the yin harness *)

Samples == (0 - MaxSample)..MaxSample
Frames == UNION {[1..n -> Samples] : n \in 0..MaxFrameLen}

Thresholds == {<<3, 25>>, <<9, 10>>}          \* 0.12 (the callers' value), 0.9
ProbThresholds == {<<1, 10>>, <<9, 10>>}      \* 0.1 (the callers' value), 0.9
SampleRates == {-4, -1, 0, 4, 6}
MinFreqs == {1, 2}
MaxFreqs == {2, 4}
YinConfigs == [threshold : Thresholds, probabilityThreshold : ProbThresholds,
               sampleRate : SampleRates, minFreq : MinFreqs, maxFreq : MaxFreqs]

\* the YinConfig of the data model: threshold in (0,1), probabilityThreshold in
\* [0,1], sampleRate > 0, 0 < minFreq < maxFreq
ValidConfig(c) ==
    /\ RLt(RInt(0), c.threshold) /\ RLt(c.threshold, RInt(1))
    /\ RLe(RInt(0), c.probabilityThreshold) /\ RLe(c.probabilityThreshold, RInt(1))
    /\ c.sampleRate > 0
    /\ 0 < c.minFreq /\ c.minFreq < c.maxFreq

---------------------------------------------------------------------------
(* smoothing.ts: ema *)

\* A faulty variant of Ema, against which C24 is tested: the weights of the
\* previous and the next value are exchanged
EmaSwapped(prev, next, alpha) ==
    IF prev = Null \/ ~IsFinite(prev) THEN next
    ELSE RAdd(RMul(prev, alpha), RMul(next, RSub(RInt(1), alpha)))

\* ema(prev, next, alpha) with alpha a rational
Ema(prev, next, alpha) ==
    IF prev = Null \/ ~IsFinite(prev) THEN next
    ELSE RAdd(RMul(prev, RSub(RInt(1), alpha)), RMul(next, alpha))

---------------------------------------------------------------------------
(* pitchTracker.ts *)

\* The configuration the loop hands to yin: the callers' thresholds, and a sample
\* rate and band scaled down so that a frame of 2 * maxLag samples is small
TrackerConfig ==
    [threshold |-> <<3, 25>>, probabilityThreshold |-> <<1, 10>>,
     sampleRate |-> 8, minFreq |-> 2, maxFreq |-> 4]

\* What analyser.getFloatTimeDomainData can deliver: silence, a period of 4
\* samples, a period of 3 samples
TickFrames ==
    { <<0, 0, 0, 0, 0, 0, 0, 0>>,
      <<1, 0, -1, 0, 1, 0, -1, 0>>,
      <<1, 0, -1, 1, 0, -1, 1, 0>> }

\* cancelAnimationFrame(id) on the browser's callback list
CancelAnimationFrame(id, pend) == {cb \in pend : cb.handle # id[1]}

\* A faulty variant of StopPending, against which C3 is tested: stop() clears
\* rafId without cancelling the callback
StopPendingNoCancel(id, pend) == pend

\* stop(), line 92: the callback list after `if (rafId != null) cancel...`
StopPending(id, pend) ==
    IF id # Null THEN CancelAnimationFrame(id, pend) ELSE pend

\* A faulty variant of StartedAt, against which C16 is tested: the offset is
\* not taken off the clock
StartedAtNoOffset(clock, o) == clock

\* this.startedAt = this.ac.currentTime - startOffset
StartedAt(clock, o) == clock - o

\* start(startOffset), called by the owner between animation frames
Start(o) ==
    /\ inTick = Null
    /\ runs < MaxRuns /\ nextHandle <= MaxHandle
    /\ startOffset' = o
    /\ startedAt' = StartedAt(now, o)
    /\ pending' = pending \cup {[handle |-> nextHandle, run |-> runs + 1]}
    /\ rafId' = <<nextHandle>>
    /\ nextHandle' = nextHandle + 1
    /\ runs' = runs + 1
    /\ stopped' = FALSE
    /\ startClock' = now
    /\ UNCHANGED <<lastEma, now, inTick, emitted, emittedRun, live, yinVars,
                   batchVars, utilVars>>

\* stop(), called by the owner between animation frames
Stop ==
    /\ inTick = Null
    /\ pending' = StopPending(rafId, pending)
    /\ rafId' = Null
    /\ stopped' = TRUE
    /\ UNCHANGED <<startedAt, startOffset, lastEma, now, nextHandle, inTick,
                   emitted, runs, startClock, emittedRun, live, yinVars,
                   batchVars, utilVars>>

\* The browser runs a scheduled loop(): lines 56-80, up to the point where
\* onData has been entered; what onData does with the point is the consumer's
LoopBody ==
    /\ inTick = Null
    /\ nextHandle <= MaxHandle
    /\ \E cb \in pending, f \in TickFrames :
          LET res == Yin(f, TrackerConfig)
              smoothed == IF res.freqHz = Null THEN Null
                          ELSE Ema(lastEma, res.freqHz, <<1, 4>>)
          IN  /\ pending' = pending \ {cb}
              /\ lastEma' = IF smoothed # Null THEN smoothed ELSE lastEma
              /\ emitted' = <<[tSec |-> now - startedAt,
                             freq |-> IF smoothed # Null THEN smoothed
                                      ELSE res.freqHz,
                             prob |-> res.probability]>>
              /\ inTick' = <<cb>>
    /\ emittedRun' = runs
    /\ UNCHANGED <<rafId, startedAt, startOffset, now, nextHandle, runs,
                   stopped, startClock, yinVars, batchVars, utilVars>>

\* a tick of a tracker whose consumer keeps nothing
TickBegin == LoopBody /\ UNCHANGED live

\* The consumer's onData calls stop() on the tracker while the tick executes
CallbackStop ==
    /\ inTick # Null
    /\ ~stopped
    /\ pending' = StopPending(rafId, pending)
    /\ rafId' = Null
    /\ stopped' = TRUE
    /\ UNCHANGED <<startedAt, startOffset, lastEma, now, nextHandle, inTick,
                   emitted, runs, startClock, emittedRun, live, yinVars,
                   batchVars, utilVars>>

\* onData returns and loop() runs line 83
TickEnd ==
    /\ inTick # Null
    /\ pending' = pending \cup {[handle |-> nextHandle, run |-> inTick[1].run]}
    /\ rafId' = <<nextHandle>>
    /\ nextHandle' = nextHandle + 1
    /\ inTick' = Null
    /\ UNCHANGED <<startedAt, startOffset, lastEma, now, emitted, runs,
                   stopped, startClock, emittedRun, live, yinVars, batchVars,
                   utilVars>>

\* AudioContext.currentTime advances between animation frames
ClockAdvance ==
    /\ inTick = Null
    /\ now < MaxClock * ClockStep
    /\ now' = now + ClockStep
    /\ UNCHANGED <<rafId, startedAt, startOffset, lastEma, nextHandle, pending,
                   inTick, emitted, runs, stopped, startClock, emittedRun,
                   live, yinVars, batchVars, utilVars>>

---------------------------------------------------------------------------
(* smoothing.ts: medianFilter *)

\* xs with x inserted before the first element that is not smaller
RECURSIVE InsertSorted(_, _)
InsertSorted(x, xs) ==
    IF xs = <<>> THEN <<x>>
    ELSE IF RLe(x, Head(xs)) THEN <<x>> \o xs
    ELSE <<Head(xs)>> \o InsertSorted(x, Tail(xs))

\* slice.sort((a, b) => a - b) on finite numbers
RECURSIVE SortNumbers(_)
SortNumbers(xs) ==
    IF xs = <<>> THEN <<>> ELSE InsertSorted(Head(xs), SortNumbers(Tail(xs)))

\* arr.slice(start, end).filter(Number.isFinite), start and end 0-based
FiniteSlice(arr, start, end) ==
    SelectSeq(SubSeq(arr, start + 1, end), LAMBDA v : IsFinite(v))

\* A faulty variant of MedianAt, against which C20 is tested: of an even
\* number of finite values it takes the smaller of the two in the middle
MedianAtLower(arr, i, hw) ==
    LET start == Max(0, i - hw)
        end == Min(Len(arr), i + hw + 1)
        slice == FiniteSlice(arr, start, end)
    IN  IF Len(slice) = 0 THEN NaN
        ELSE SortNumbers(slice)[((Len(slice) - 1) \div 2) + 1]

\* the element medianFilter pushes for index i (0-based) with half window hw
MedianAt(arr, i, hw) ==
    LET start == Max(0, i - hw)
        end == Min(Len(arr), i + hw + 1)
        slice == FiniteSlice(arr, start, end)
    IN  IF Len(slice) = 0 THEN NaN
        ELSE SortNumbers(slice)[(Len(slice) \div 2) + 1]

\* A faulty variant of MedianFilter, against which C14 is tested: a window
\* without finite values pushes nothing
MedianFilterSkipsEmpty(arr, win) ==
    LET w == IF win % 2 = 1 THEN win ELSE win + 1
        hw == w \div 2
    IN  SelectSeq([i \in 1..Len(arr) |-> MedianAt(arr, i - 1, hw)],
                  LAMBDA v : ~IsNaN(v))

\* medianFilter(arr, win)
MedianFilter(arr, win) ==
    LET w == IF win % 2 = 1 THEN win ELSE win + 1
        hw == w \div 2
    IN  [i \in 1..Len(arr) |-> MedianAt(arr, i - 1, hw)]

---------------------------------------------------------------------------
(* FileMelodyExtractor.tsx (handleFile) and Generator.tsx (analyzePart):   *)
(* the segmentation of the filtered F0 sequence into notes.  A note is     *)
(* [start, duration, midi]; its id, a fresh UUID, is not modelled.         *)

HOP_SIZE == 512      \* FileMelodyExtractor.tsx
HOP == 512           \* Generator.tsx, analyzePart
MEDIAN_WIN == 7      \* the window both callers pass to medianFilter

\* Math.round(69 + 12 * Math.log2(hz / 440)) for a finite hz, tabulated on the
\* frequencies of the model: log2 of a negative number is NaN, of 0 -Infinity
RoundedMidi(hz) ==
    IF RLt(hz, RInt(0)) THEN NaN
    ELSE IF hz = RInt(0) THEN <<-1, 0>>
    ELSE IF hz = RInt(220) THEN RInt(57)
    ELSE IF hz = RInt(440) THEN RInt(69)
    ELSE IF hz = RInt(445) THEN RInt(69)
    ELSE RInt(70)                                  \* 466 Hz

\* q of handleFile: hzToMidiNumber, then Math.round unless null
QuantizeHF(hz) == IF hz = Null \/ ~IsFinite(hz) THEN Null ELSE RoundedMidi(hz)

\* A faulty variant of QuantizeAP, against which C23 is tested: values that
\* are not positive are absent, as in hzToMidi
QuantizeAPPositive(v) ==
    IF IsFinite(v) /\ RLt(RInt(0), v) THEN RoundedMidi(v) ELSE Null

\* q of analyzePart: Number.isFinite(f0Med[i]), 69 + 12 log2, Math.round
QuantizeAP(v) == IF IsFinite(v) THEN RoundedMidi(v) ELSE Null

\* Math.abs(q - curMidi) > 0: false when either is NaN, and for equal
\* infinities (their difference is NaN)
PitchDiffers(q, cur) == IF IsNaN(q) \/ IsNaN(cur) THEN FALSE ELSE q # cur

\* A faulty variant of CommitHF, against which C9 is tested: the note is
\* pushed whatever its duration
CommitHFNoGate(notes, curStart, curMidi, dur) ==
    Append(notes, [start |-> curStart, duration |-> dur, midi |-> curMidi])

\* closing a note in handleFile: if (dur >= 0.08) notes.push(...)
CommitHF(notes, curStart, curMidi, dur) ==
    IF RLe(<<2, 25>>, dur)
    THEN Append(notes, [start |-> curStart, duration |-> dur, midi |-> curMidi])
    ELSE notes

\* A faulty variant of StepHF, against which C10 is tested: on a pitch change
\* the new note keeps the old start
StepHFKeepsStart(st, i, q, frameDur) ==
    IF q = Null
    THEN IF st.curMidi # Null
         THEN [st EXCEPT !.notes = CommitHF(st.notes, st.curStart, st.curMidi,
                                            RSub(RMul(RInt(i), frameDur), st.curStart)),
                         !.curMidi = Null]
         ELSE st
    ELSE IF st.curMidi = Null
         THEN [st EXCEPT !.curMidi = q, !.curStart = RMul(RInt(i), frameDur)]
         ELSE IF PitchDiffers(q, st.curMidi)
              THEN [st EXCEPT !.notes = CommitHF(st.notes, st.curStart, st.curMidi,
                                                 RSub(RMul(RInt(i), frameDur), st.curStart)),
                              !.curMidi = q]
              ELSE st

\* one iteration of handleFile's loop, lines 63-90, on st = [notes, curStart, curMidi]
StepHF(st, i, q, frameDur) ==
    IF q = Null
    THEN IF st.curMidi # Null
         THEN [st EXCEPT !.notes = CommitHF(st.notes, st.curStart, st.curMidi,
                                            RSub(RMul(RInt(i), frameDur), st.curStart)),
                         !.curMidi = Null]
         ELSE st
    ELSE IF st.curMidi = Null
         THEN [st EXCEPT !.curMidi = q, !.curStart = RMul(RInt(i), frameDur)]
         ELSE IF PitchDiffers(q, st.curMidi)
              THEN [st EXCEPT !.notes = CommitHF(st.notes, st.curStart, st.curMidi,
                                                 RSub(RMul(RInt(i), frameDur), st.curStart)),
                              !.curMidi = q,
                              !.curStart = RMul(RInt(i), frameDur)]
              ELSE st

RECURSIVE LoopHF(_, _, _, _)
LoopHF(med, i, st, frameDur) ==
    IF i < Len(med)
    THEN LoopHF(med, i + 1, StepHF(st, i, QuantizeHF(med[i + 1]), frameDur), frameDur)
    ELSE st

\* handleFile, lines 53-97: the notes handed to onNotes
SegmentHF(med, rate) ==
    LET frameDur == Rat(HOP_SIZE, rate)
        st == LoopHF(med, 0, [notes |-> <<>>, curStart |-> RInt(0), curMidi |-> Null],
                     frameDur)
    IN  IF st.curMidi # Null
        THEN CommitHF(st.notes, st.curStart, st.curMidi,
                      RSub(RMul(RInt(Len(med)), frameDur), st.curStart))
        ELSE st.notes

\* closing a note in analyzePart: if (dur >= 0.08) outNotes.push(...)
CommitAP(notes, curStart, curMidi, dur) ==
    IF RLe(<<2, 25>>, dur)
    THEN Append(notes, [start |-> curStart, duration |-> dur, midi |-> curMidi])
    ELSE notes

\* one iteration of analyzePart's loop, lines 47-69
StepAP(st, i, q, frameDur) ==
    IF q = Null
    THEN IF st.curMidi # Null
         THEN [st EXCEPT !.notes = CommitAP(st.notes, st.curStart, st.curMidi,
                                            RSub(RMul(RInt(i), frameDur), st.curStart)),
                         !.curMidi = Null,
                         !.curStart = RInt(-1)]
         ELSE st
    ELSE IF st.curMidi = Null
         THEN [st EXCEPT !.curMidi = q, !.curStart = RMul(RInt(i), frameDur)]
         ELSE IF PitchDiffers(q, st.curMidi)
              THEN [st EXCEPT !.notes = CommitAP(st.notes, st.curStart, st.curMidi,
                                                 RSub(RMul(RInt(i), frameDur), st.curStart)),
                              !.curMidi = q,
                              !.curStart = RMul(RInt(i), frameDur)]
              ELSE st

RECURSIVE LoopAP(_, _, _, _)
LoopAP(med, i, st, frameDur) ==
    IF i < Len(med)
    THEN LoopAP(med, i + 1, StepAP(st, i, QuantizeAP(med[i + 1]), frameDur), frameDur)
    ELSE st

\* analyzePart, lines 43-73: the notes handed to setNotes
SegmentAP(med, rate) ==
    LET frameDur == Rat(HOP, rate)
        st == LoopAP(med, 0, [notes |-> <<>>, curStart |-> RInt(-1), curMidi |-> Null],
                     frameDur)
    IN  IF st.curMidi # Null
        THEN CommitAP(st.notes, st.curStart, st.curMidi,
                      RSub(RMul(RInt(Len(med)), frameDur), st.curStart))
        ELSE st.notes

\* f0.map(v => v ?? NaN)
F0Arr(raw) == [i \in 1..Len(raw) |-> IF raw[i] = Null THEN NaN ELSE raw[i]]

---------------------------------------------------------------------------
(* FileMelodyExtractor.tsx (handleFile) and Generator.tsx (analyzePart):   *)
(* the loops that slide the analysis window over the decoded buffer.  One  *)
(* F0 entry is pushed per iteration; the model keeps the offset i of each. *)

FRAME_SIZE == 2048       \* FileMelodyExtractor.tsx
GEN_FRAME_SIZE == 2048   \* Generator.tsx, analyzePart: FRAME_SIZE

\* for (let i = 0; i + FRAME_SIZE < ch0.length; i += HOP_SIZE)
RECURSIVE FramesHF(_, _, _)
FramesHF(i, len, acc) ==
    IF i + FRAME_SIZE < len THEN FramesHF(i + HOP_SIZE, len, Append(acc, i))
    ELSE acc

\* for (let i = 0; i + FRAME_SIZE < ch0.length; i += HOP)
RECURSIVE FramesAP(_, _, _)
FramesAP(i, len, acc) ==
    IF i + GEN_FRAME_SIZE < len THEN FramesAP(i + HOP, len, Append(acc, i))
    ELSE acc

---------------------------------------------------------------------------
(* music.ts: midiToNoteName and midiToSolfeggio *)

NoteNames == <<"C", "C#", "D", "D#", "E", "F", "F#", "G", "G#", "A", "A#", "B">>
\* the table of midiToSolfeggio, its katakana syllables in Latin letters
SolfeggioNames == <<"do", "do#", "re", "re#", "mi", "fa", "fa#", "so", "so#",
                    "la", "la#", "si">>

\* JavaScript's a % b on integers: the remainder has the sign of a
JsRem(a, b) == Sign(a) * (Abs(a) % Abs(b))

\* Math.round on a finite number: the nearest integer, halves upwards
MathRound(x) == (2 * x[1] + x[2]) \div (2 * x[2])

\* Math.floor(m / 12) on an integer m
FloorDiv12(m) == m \div 12

\* A faulty variant of PitchClass, against which C15 is tested: the remainder
\* is used as it comes
PitchClassNoWrap(m) == JsRem(m, 12)

\* (m % 12 + 12) % 12
PitchClass(m) == JsRem(JsRem(m, 12) + 12, 12)

\* names[i] on a JavaScript array: undefined outside the array
ArrayAt(names, i) == IF i \in 0..(Len(names) - 1) THEN names[i + 1] ELSE "undefined"

\* midiToNoteName(midi): the template `${name}${octave}` as its two parts
MidiToNoteName(x) ==
    LET m == MathRound(x)
        octave == FloorDiv12(m) - 1
        name == ArrayAt(NoteNames, PitchClass(m))
    IN  [name |-> name, octave |-> octave]

\* midiToSolfeggio(midi)
MidiToSolfeggio(x) ==
    LET m == MathRound(x)
    IN  ArrayAt(SolfeggioNames, PitchClass(m))

---------------------------------------------------------------------------
(* App.tsx: the live history fed by the tracker of a practice run *)

LIVE_WINDOW == 30    \* seconds of live points the callback keeps

\* the updater handed to setLive: [...prev, p].filter(x => p.tSec - x.tSec <= 30)
OnData(prev, p) ==
    SelectSeq(Append(prev, p), LAMBDA x : p.tSec - x.tSec <= LIVE_WINDOW)

\* startPractice(offsetSeconds) from step 5-7 on, which runs without awaiting:
\* stop the previous tracker, make a new one and start it
StartPractice(o) ==
    /\ inTick = Null
    /\ runs < MaxRuns /\ nextHandle <= MaxHandle
    /\ lastEma' = Null
    /\ startOffset' = o
    /\ startedAt' = StartedAt(now, o)
    /\ pending' = StopPending(rafId, pending)
                      \cup {[handle |-> nextHandle, run |-> runs + 1]}
    /\ rafId' = <<nextHandle>>
    /\ nextHandle' = nextHandle + 1
    /\ runs' = runs + 1
    /\ stopped' = FALSE
    /\ startClock' = now
    /\ UNCHANGED <<now, inTick, emitted, emittedRun, live, yinVars, batchVars,
                   utilVars>>

\* stopPractice(), and source.onended: the tracker is stopped and dropped
StopPractice ==
    /\ rafId # Null
    /\ Stop

\* a tick of the tracker App made: onData queues the updater of live
TickApp ==
    /\ LoopBody
    /\ live' = OnData(live, emitted'[1])

---------------------------------------------------------------------------
(* App.tsx: startPractice, stopPractice and the 'ended' event of a source. *)
(* app is a record of the refs and state they work on:                     *)
(*   acState          ac.state, "suspended" or "running"                   *)
(*   bufferRef        bufferRef.current holds a decoded buffer             *)
(*   micStreamRef     micStreamRef.current holds a stream                  *)
(*   sourceRef        <<the source held in sourceRef.current>>, or Null    *)
(*   pitchTrackerRef  <<the tracker in pitchTrackerRef.current>>, or Null  *)
(*   isPlaying        the state the buttons are disabled by                *)
(*   playOffsetRef    playOffsetRef.current, seconds                       *)
(*   playing          the sources that were started and have not stopped   *)
(*   endedQueue       the sources whose 'ended' event is to be delivered   *)
(*   onended          the sources that have the handler of step 5-9        *)
(*   running          the trackers that were started and not stopped       *)
(*   calls            the startPractice invocations suspended at an await, *)
(*                    each with its offsetSeconds                          *)
(*   started          the number of startPractice invocations so far       *)
(*   current          history: <<the invocation that completed last>>      *)
(* The n-th invocation creates source n and tracker n.  A tracker is      *)
(* started once and stopped between animation frames, which ends its loop. *)

AppIdle ==
    [acState |-> "suspended", bufferRef |-> FALSE, micStreamRef |-> FALSE,
     sourceRef |-> Null, pitchTrackerRef |-> Null, isPlaying |-> FALSE,
     playOffsetRef |-> 0,
     playing |-> {}, endedQueue |-> {}, onended |-> {}, running |-> {},
     calls |-> {}, started |-> 0, current |-> Null]

\* source.stop() on the source a ref holds: it stops playing and its 'ended'
\* event is queued
StopSource(a, ref) ==
    IF ref # Null /\ ref[1] \in a.playing
    THEN [a EXCEPT !.playing = @ \ {ref[1]}, !.endedQueue = @ \cup {ref[1]}]
    ELSE a

\* pitchTrackerRef.current?.stop()
StopTracker(a) ==
    IF a.pitchTrackerRef # Null
    THEN [a EXCEPT !.running = @ \ {a.pitchTrackerRef[1]}]
    ELSE a

\* stopPractice()
StopPracticeBody(a) ==
    [StopTracker(StopSource(a, a.sourceRef)) EXCEPT
        !.sourceRef = Null, !.pitchTrackerRef = Null, !.isPlaying = FALSE]

\* the handler of step 5-9, run for the 'ended' event of any source it is on
OnEnded(a) ==
    [StopTracker(a) EXCEPT
        !.isPlaying = FALSE, !.pitchTrackerRef = Null, !.sourceRef = Null]

\* startPractice, invocation n, steps 5-7 to 5-9: after the microphone stream
AfterMic(a, n) ==
    [StopTracker(a) EXCEPT
        !.running = @ \cup {n}, !.pitchTrackerRef = <<n>>,
        !.sourceRef = <<n>>, !.isPlaying = TRUE,
        !.onended = @ \cup {n}, !.current = <<n>>]

\* startPractice, invocation n, steps 5-2 to 5-6: the old source is stopped,
\* the new one started, and the microphone awaited unless there is a stream
AfterDecode(a, n, o) ==
    LET b == [StopSource(a, a.sourceRef) EXCEPT
                 !.sourceRef = Null, !.playOffsetRef = o,
                 !.playing = @ \cup {n}]
    IN  IF ~b.micStreamRef
        THEN [b EXCEPT !.calls = @ \cup {[id |-> n, at |-> "mic", offset |-> o]}]
        ELSE AfterMic(b, n)

\* startPractice, invocation n, step 5-1: the buffer is awaited unless loaded
AfterResume(a, n, o) ==
    IF ~a.bufferRef
    THEN [a EXCEPT !.calls = @ \cup {[id |-> n, at |-> "decode", offset |-> o]}]
    ELSE AfterDecode(a, n, o)

\* startPractice(o) up to its first await
BeginStart(a, o) ==
    LET n == a.started + 1
        b == [a EXCEPT !.started = n]
    IN  IF b.acState = "suspended"
        THEN [b EXCEPT !.calls = @ \cup {[id |-> n, at |-> "resume", offset |-> o]}]
        ELSE AfterResume(b, n, o)

\* the times of two of the head-cue buttons, seconds
HeadTimes == {20, 51}

AppUnchanged == UNCHANGED <<frameVars, medianVars, musicVars, yinVars,
                            trackerVars, batchVars>>

\* the start button, enabled while not isPlaying: startPractice(0)
ClickStart ==
    /\ ~app.isPlaying /\ app.started < MaxStarts
    /\ app' = BeginStart(app, 0)
    /\ AppUnchanged

\* a head-cue button, enabled while not isPlaying: stopPractice();
\* startPractice(h.time)
ClickHead ==
    /\ ~app.isPlaying /\ app.started < MaxStarts
    /\ \E t \in HeadTimes : app' = BeginStart(StopPracticeBody(app), t)
    /\ AppUnchanged

\* the stop button, enabled while isPlaying: stopPractice()
ClickStop ==
    /\ app.isPlaying
    /\ app' = StopPracticeBody(app)
    /\ AppUnchanged

\* await ac.resume() returns
ResumeResolved ==
    /\ \E c \in app.calls :
          /\ c.at = "resume"
          /\ app' = AfterResume([app EXCEPT !.calls = @ \ {c},
                                            !.acState = "running"],
                                 c.id, c.offset)
    /\ AppUnchanged

\* await ac.decodeAudioData(...) returns and bufferRef.current is set
DecodeResolved ==
    /\ \E c \in app.calls :
          /\ c.at = "decode"
          /\ app' = AfterDecode([app EXCEPT !.calls = @ \ {c},
                                            !.bufferRef = TRUE],
                                 c.id, c.offset)
    /\ AppUnchanged

\* await getMicStream() returns and micStreamRef.current is set
MicResolved ==
    /\ \E c \in app.calls :
          /\ c.at = "mic"
          /\ app' = AfterMic([app EXCEPT !.calls = @ \ {c},
                                         !.micStreamRef = TRUE], c.id)
    /\ AppUnchanged

\* a playing source reaches the end of its buffer
SourceEnds ==
    /\ \E s \in app.playing : app' = StopSource(app, <<s>>)
    /\ AppUnchanged

\* the browser delivers a queued 'ended' event
EndedDelivered ==
    /\ \E s \in app.endedQueue :
          LET a == [app EXCEPT !.endedQueue = @ \ {s}]
          IN  app' = IF s \in a.onended THEN OnEnded(a) ELSE a
    /\ AppUnchanged

---------------------------------------------------------------------------
(* Initial states *)

TrackerIdle ==
    /\ rafId = Null /\ startedAt = 0 /\ startOffset = 0
    /\ lastEma = Null /\ now = 0 /\ nextHandle = 1 /\ pending = {}
    /\ inTick = Null /\ emitted = Null /\ runs = 0 /\ stopped = FALSE
    /\ startClock = 0 /\ emittedRun = 0 /\ live = <<>>

YinIdle == frame = <<>> /\ cfg = TrackerConfig /\ yinOut = Null

BatchIdle ==
    /\ f0 = <<>> /\ sr = 44100 /\ f0Med = Null /\ notesHF = Null /\ notesAP = Null

MedianIdle == mfArr = <<>> /\ mfWin = MEDIAN_WIN /\ mfOut = Null

MusicIdle == midi = RInt(69) /\ noteName = Null /\ solfeggio = Null

FrameIdle == bufLen = 0 /\ startsHF = Null /\ startsAP = Null

ExtraIdle == FrameIdle /\ app = AppIdle

UtilIdle == MedianIdle /\ MusicIdle /\ ExtraIdle

---------------------------------------------------------------------------
(* Spec: a tracker driven by any sequence of start, stop and frames *)

Init == YinIdle /\ TrackerIdle /\ BatchIdle /\ UtilIdle

Next ==
    \/ \E o \in 0..MaxOffset : Start(o * ClockStep)
    \/ Stop
    \/ TickBegin
    \/ CallbackStop
    \/ TickEnd
    \/ ClockAdvance

Spec == Init /\ [][Next]_vars

---------------------------------------------------------------------------
(* SpecStop: the owner starts the tracker only while it is not running (as   *)
(* App does, which starts each PitchTracker once); stop() comes from the    *)
(* owner or from the consumer callback                                      *)

StartIdle(o) == rafId = Null /\ Start(o)

NextStop ==
    \/ \E o \in 0..MaxOffset : StartIdle(o * ClockStep)
    \/ Stop
    \/ TickBegin
    \/ CallbackStop
    \/ TickEnd
    \/ ClockAdvance

SpecStop == Init /\ [][NextStop]_vars

---------------------------------------------------------------------------
(* SpecRestart: the owner calls start(), stop(), start() and nothing else,   *)
(* and onData does not call back into the tracker                          *)

StartScripted(o) == (runs = 0 \/ (runs = 1 /\ stopped)) /\ Start(o)
StopScripted == (runs = 1 /\ ~stopped) /\ Stop

NextRestart ==
    \/ \E o \in 0..MaxOffset : StartScripted(o * ClockStep)
    \/ StopScripted
    \/ TickBegin
    \/ TickEnd
    \/ ClockAdvance

SpecRestart == Init /\ [][NextRestart]_vars

---------------------------------------------------------------------------
(* SpecYin: one call of yin on every frame and configuration of the bounds *)

InitYin ==
    /\ frame \in Frames
    /\ cfg \in YinConfigs
    /\ yinOut = Null
    /\ TrackerIdle
    /\ BatchIdle
    /\ UtilIdle

YinCall ==
    /\ yinOut = Null
    /\ yinOut' = <<Yin(frame, cfg)>>
    /\ UNCHANGED <<frame, cfg, trackerVars, batchVars, utilVars>>

NextYin == YinCall

SpecYin == InitYin /\ [][NextYin]_vars

---------------------------------------------------------------------------
(* SpecSeg: the batch path from the raw per-hop F0 sequence to the notes,  *)
(* in both places that implement it                                       *)

\* what yin can put into f0: null, a positive frequency, a negative one
F0Values == {Null, RInt(440), RInt(445), RInt(466), RInt(-4)}
F0Sequences == UNION {[1..n -> F0Values] : n \in 0..MaxFrames}
\* shorter sequences with entries of 0 Hz, which the segmentation accepts
F0ZeroSequences ==
    UNION {[1..n -> {Null, RInt(0), RInt(440)}] : n \in 0..(MaxFrames - 2)}
BatchSampleRates == {8000, 16000, 44100}

InitSeg ==
    /\ f0 \in F0Sequences \cup F0ZeroSequences
    /\ sr \in BatchSampleRates
    /\ f0Med = Null /\ notesHF = Null /\ notesAP = Null
    /\ YinIdle /\ TrackerIdle /\ UtilIdle

\* const f0Med = medianFilter(f0Arr, 7)
MedianFilterCall ==
    /\ f0Med = Null
    /\ f0Med' = <<MedianFilter(F0Arr(f0), MEDIAN_WIN)>>
    /\ UNCHANGED <<f0, sr, notesHF, notesAP, yinVars, trackerVars, utilVars>>

\* handleFile, steps 6 and 7
SegmentHandleFile ==
    /\ f0Med # Null /\ notesHF = Null
    /\ notesHF' = <<SegmentHF(f0Med[1], sr)>>
    /\ UNCHANGED <<f0, sr, f0Med, notesAP, yinVars, trackerVars, utilVars>>

\* analyzePart, segmentation and setNotes
SegmentAnalyzePart ==
    /\ f0Med # Null /\ notesAP = Null
    /\ notesAP' = <<SegmentAP(f0Med[1], sr)>>
    /\ UNCHANGED <<f0, sr, f0Med, notesHF, yinVars, trackerVars, utilVars>>

NextSeg == MedianFilterCall \/ SegmentHandleFile \/ SegmentAnalyzePart

SpecSeg == InitSeg /\ [][NextSeg]_vars

---------------------------------------------------------------------------
(* SpecLive: App starts and stops practice runs; the tracker's points go   *)
(* to the live history                                                     *)

\* the buttons that call startPractice are disabled while isPlaying
StartPracticeButton(o) == rafId = Null /\ StartPractice(o)

NextLive ==
    \/ \E o \in 0..MaxOffset : StartPracticeButton(o * ClockStep)
    \/ StopPractice
    \/ TickApp
    \/ TickEnd
    \/ ClockAdvance

SpecLive == Init /\ [][NextLive]_vars

---------------------------------------------------------------------------
(* SpecMedian: one call of medianFilter on every array and window width of *)
(* the bounds                                                              *)

\* what a number[] can hold: NaN, an infinity, finite values
MedianValues == {NaN, <<1, 0>>, RInt(1), RInt(2), RInt(3)}
MedianArrays == UNION {[1..n -> MedianValues] : n \in 0..MaxMedianLen}

InitMedian ==
    /\ mfArr \in MedianArrays
    /\ mfWin \in 1..MaxWin
    /\ mfOut = Null
    /\ MusicIdle /\ ExtraIdle /\ YinIdle /\ TrackerIdle /\ BatchIdle

MedianFilterOnly ==
    /\ mfOut = Null
    /\ mfOut' = <<MedianFilter(mfArr, mfWin)>>
    /\ UNCHANGED <<mfArr, mfWin, musicVars, extraVars, yinVars, trackerVars,
                   batchVars>>

NextMedian == MedianFilterOnly

SpecMedian == InitMedian /\ [][NextMedian]_vars

---------------------------------------------------------------------------
(* SpecMusic: the two name functions on every MIDI number of the bounds *)

MidiNumbers == {Rat(k, 2) : k \in (-2 * MaxMidi)..(2 * MaxMidi)}

InitMusic ==
    /\ midi \in MidiNumbers
    /\ noteName = Null /\ solfeggio = Null
    /\ MedianIdle /\ ExtraIdle /\ YinIdle /\ TrackerIdle /\ BatchIdle

MidiToNoteNameCall ==
    /\ noteName = Null
    /\ noteName' = <<MidiToNoteName(midi)>>
    /\ UNCHANGED <<midi, solfeggio, medianVars, extraVars, yinVars,
                   trackerVars, batchVars>>

MidiToSolfeggioCall ==
    /\ solfeggio = Null
    /\ solfeggio' = <<MidiToSolfeggio(midi)>>
    /\ UNCHANGED <<midi, noteName, medianVars, extraVars, yinVars,
                   trackerVars, batchVars>>

NextMusic == MidiToNoteNameCall \/ MidiToSolfeggioCall

SpecMusic == InitMusic /\ [][NextMusic]_vars

---------------------------------------------------------------------------
(* SpecFrame: both framing loops on every buffer length of the bounds *)

InitFrame ==
    /\ bufLen \in 0..MaxBufLen
    /\ startsHF = Null /\ startsAP = Null
    /\ app = AppIdle
    /\ MedianIdle /\ MusicIdle /\ YinIdle /\ TrackerIdle /\ BatchIdle

FramingHandleFile ==
    /\ startsHF = Null
    /\ startsHF' = <<FramesHF(0, bufLen, <<>>)>>
    /\ UNCHANGED <<bufLen, startsAP, app, medianVars, musicVars, yinVars,
                   trackerVars, batchVars>>

FramingAnalyzePart ==
    /\ startsAP = Null
    /\ startsAP' = <<FramesAP(0, bufLen, <<>>)>>
    /\ UNCHANGED <<bufLen, startsHF, app, medianVars, musicVars, yinVars,
                   trackerVars, batchVars>>

NextFrame == FramingHandleFile \/ FramingAnalyzePart

SpecFrame == InitFrame /\ [][NextFrame]_vars

---------------------------------------------------------------------------
(* SpecApp: the buttons, the awaits of startPractice and the 'ended'       *)
(* events in every order                                                   *)

\* at the first click the context may be suspended or running, and the
\* preloaded buffer may have arrived or not
InitApp ==
    /\ app \in {[AppIdle EXCEPT !.acState = st, !.bufferRef = b] :
                   st \in {"suspended", "running"}, b \in BOOLEAN}
    /\ FrameIdle /\ MedianIdle /\ MusicIdle /\ YinIdle /\ TrackerIdle /\ BatchIdle

NextApp ==
    \/ ClickStart
    \/ ClickHead
    \/ ClickStop
    \/ ResumeResolved
    \/ DecodeResolved
    \/ MicResolved
    \/ SourceEnds
    \/ EndedDelivered

SpecApp == InitApp /\ [][NextApp]_vars

---------------------------------------------------------------------------
(* SpecEnded: as SpecApp, with a user who starts practice only when no     *)
(* earlier startPractice is still suspended                                *)

ClickStartAlone == app.calls = {} /\ ClickStart
ClickHeadAlone == app.calls = {} /\ ClickHead

NextEnded ==
    \/ ClickStartAlone
    \/ ClickHeadAlone
    \/ ClickStop
    \/ ResumeResolved
    \/ DecodeResolved
    \/ MicResolved
    \/ SourceEnds
    \/ EndedDelivered

SpecEnded == InitApp /\ [][NextEnded]_vars

---------------------------------------------------------------------------
(* Properties of the tracker *)

\* the tick loops alive: callbacks scheduled, plus the one executing
Loops == Cardinality(pending) + (IF inTick = Null THEN 0 ELSE 1)

\* C1: once stop() has returned (and until the next start()), no tick is
\* scheduled and no tick starts executing, wherever stop() was called from,
\* the consumer callback of an executing tick included.
C1_NoTickAfterStop ==
    [][(stopped /\ stopped') =>
          /\ pending' \subseteq pending
          /\ (inTick = Null => inTick' = Null)]_vars

\* C2: a tracker has at most one tick loop after any sequence of start, stop
\* and tick events, and once stop() has returned and no tick is executing no
\* loop is left.
C2_AtMostOneLoop ==
    /\ Loops <= 1
    /\ (stopped /\ inTick = Null) => pending = {}

\* C3: for start(), stop(), start() with animation frames in between, there is
\* never more than one tick scheduled or executing, and once the stop() call
\* has returned no tick of the first run is scheduled or executing.
C3_RestartNoOverlap ==
    /\ Loops <= 1
    /\ ((runs = 1 /\ stopped) \/ runs >= 2) =>
          /\ \A cb \in pending : cb.run # 1
          /\ inTick # Null => inTick[1].run # 1

\* C3 witness: the first run has ticked, and after stop() and the second
\* start() a tick of the second run is executing
C3_Witness ==
    /\ runs = 2 /\ inTick # Null /\ inTick[1].run = 2
    /\ inTick[1].handle >= 3

---------------------------------------------------------------------------
(* Properties of yin *)

Malformed(c) == c.sampleRate <= 0 \/ c.minFreq >= c.maxFreq
IsConstant(f) == \A i, j \in 1..Len(f) : f[i] = f[j]

\* C4: yin called with sampleRate <= 0 or minFreq >= maxFreq ends in an error
\* before any lag computation and never returns a normal YinResult.
C4_MalformedConfigRejected ==
    (yinOut # Null /\ Malformed(cfg)) =>
        (yinOut[1].status # "ok" /\ ~yinOut[1].lagsComputed)

\* C5: on a constant frame (silence), with a valid configuration, yin does not
\* fail and returns freqHz absent.
C5_SilenceUnvoiced ==
    (yinOut # Null /\ ValidConfig(cfg) /\ IsConstant(frame)) =>
        (yinOut[1].status = "ok" /\ yinOut[1].freqHz = Null)

\* C5 witness: a non-empty constant frame that fills the analysis window was
\* estimated under a valid configuration
C5_Witness ==
    /\ yinOut # Null /\ ValidConfig(cfg) /\ IsConstant(frame)
    /\ Len(frame) > 0 /\ Len(frame) >= 2 * MaxLag(cfg)
    /\ yinOut[1].freqHz = Null

\* C6: on a frame shorter than maxLag, with a valid configuration, yin does
\* not fail and returns freqHz absent, whatever the samples.
C6_ShortFrameUnvoiced ==
    (yinOut # Null /\ ValidConfig(cfg) /\ Len(frame) < MaxLag(cfg)) =>
        (yinOut[1].status = "ok" /\ yinOut[1].freqHz = Null)

\* C7: a present freqHz is finite and strictly positive.
C7_FreqPositive ==
    (yinOut # Null /\ ValidConfig(cfg) /\ yinOut[1].freqHz # Null) =>
        (IsFinite(yinOut[1].freqHz) /\ RLt(RInt(0), yinOut[1].freqHz))

\* C8: with a valid configuration the probability of every result is in
\* [0,1]: it is 0 (and the result unvoiced) when no lag of minLag..maxLag has
\* cmnd below the threshold, and otherwise 1 - cmnd at the smallest such lag,
\* whether or not the gate rejects the result.
C8_ProbabilityRange ==
    (yinOut # Null /\ ValidConfig(cfg)) =>
        LET r == yinOut[1]
            cmnd == YinCmnd(frame, cfg)
            below == {t \in MinLag(cfg)..MaxLag(cfg) : RLt(cmnd[t], cfg.threshold)}
        IN  /\ r.status = "ok"
            /\ RLe(RInt(0), r.probability) /\ RLe(r.probability, RInt(1))
            /\ below = {} => (r.probability = RInt(0) /\ r.freqHz = Null)
            /\ below # {} =>
                  \E t \in below :
                      /\ \A u \in below : t <= u
                      /\ RAdd(r.probability, cmnd[t]) = RInt(1)
                      /\ r.freqHz = Null <=>
                            RLt(r.probability, cfg.probabilityThreshold)

\* C8 witness: a lag was found and the gate rejected the result, which keeps
\* a probability strictly between 0 and 1
C8_Witness ==
    /\ yinOut # Null /\ ValidConfig(cfg)
    /\ yinOut[1].tau # -1 /\ yinOut[1].freqHz = Null
    /\ RLt(RInt(0), yinOut[1].probability)
    /\ RLt(yinOut[1].probability, RInt(1))

---------------------------------------------------------------------------
(* Properties of the segmentation *)

MinNoteDuration == <<2, 25>>                       \* 0.08 s
NoteLists == {ns[1] : ns \in {notesHF, notesAP} \ {Null}}
NoteEnd(n) == RAdd(n.start, n.duration)

\* C9: every committed note, of handleFile and of analyzePart, lasts at least
\* 0.08 s; a closed segment shorter than that is not in the list.
C9_MinDuration ==
    \A ns \in NoteLists : \A k \in 1..Len(ns) :
        RLe(MinNoteDuration, ns[k].duration)

\* C9 witness: handleFile committed a note and dropped a segment: some voiced
\* frame of the filtered sequence lies in no committed note
C9_Witness ==
    /\ notesHF # Null /\ Len(notesHF[1]) >= 1
    /\ \E i \in 1..Len(f0Med[1]) :
          /\ QuantizeHF(f0Med[1][i]) # Null
          /\ \A k \in 1..Len(notesHF[1]) :
                LET t == Rat((i - 1) * HOP_SIZE, sr)
                IN  ~(RLe(notesHF[1][k].start, t) /\ RLt(t, NoteEnd(notesHF[1][k])))

\* C10: in every committed list the notes are in increasing start order and
\* do not overlap: each note ends no later than the next one starts.
C10_NoOverlap ==
    \A ns \in NoteLists : \A k \in 1..(Len(ns) - 1) :
        /\ RLt(ns[k].start, ns[k + 1].start)
        /\ RLe(NoteEnd(ns[k]), ns[k + 1].start)

\* C10 witness: both implementations committed two notes, the second starting
\* in the frame that closed the first (a pitch change)
C10_Witness ==
    /\ notesHF # Null /\ notesAP # Null
    /\ Len(notesHF[1]) >= 2 /\ Len(notesAP[1]) >= 2
    /\ NoteEnd(notesHF[1][1]) = notesHF[1][2].start

---------------------------------------------------------------------------
(* Properties of the batch path from the raw F0 sequence to the notes *)

\* the rounded MIDI number the segmentation gives a raw frame; Null if unvoiced
RawMidi(v) == IF v = Null THEN Null ELSE RoundedMidi(v)

\* every voiced frame of raw carries a positive frequency
AllPositive(raw) == \A i \in 1..Len(raw) : raw[i] = Null \/ RLt(RInt(0), raw[i])

\* the time of frame i (1-based) at the given sample rate
FrameTime(i, rate) == Rat((i - 1) * HOP_SIZE, rate)

\* frames a..b of raw are a blip: at most 3 consecutive voiced frames of one
\* pitch, lasting less than 0.08 s, while every other frame is unvoiced or of
\* another pitch
IsBlip(raw, a, b, rate) ==
    /\ a <= b /\ b - a + 1 <= 3
    /\ RLt(Rat((b - a + 1) * HOP_SIZE, rate), MinNoteDuration)
    /\ \A i \in a..b : raw[i] # Null /\ RawMidi(raw[i]) = RawMidi(raw[a])
    /\ \A i \in (1..Len(raw)) \ (a..b) : RawMidi(raw[i]) # RawMidi(raw[a])

\* C11: a blip of at most 3 consecutive voiced frames, shorter than 0.08 s,
\* whether its neighbours are unvoiced or of another pitch, never yields a
\* committed note of its pitch after the median filter and the merging.
C11_BlipSuppressed ==
    AllPositive(f0) =>
        \A a, b \in 1..Len(f0) :
            IsBlip(f0, a, b, sr) =>
                \A ns \in NoteLists : \A k \in 1..Len(ns) :
                    ns[k].midi # RawMidi(f0[a])

\* frames a..b of raw are a tone: a run of one positive frequency lasting at
\* least 0.08 s with an unvoiced frame on either side
IsTone(raw, a, b, rate) ==
    /\ 1 < a /\ a <= b /\ b < Len(raw)
    /\ raw[a - 1] = Null /\ raw[b + 1] = Null
    /\ \A i \in a..b : raw[i] = raw[a] /\ raw[i] # Null
    /\ RLe(MinNoteDuration, Rat((b - a + 1) * HOP_SIZE, rate))

\* note n has a frame of a..b inside it
Covers(n, a, b, rate) ==
    \E i \in a..b : RLe(n.start, FrameTime(i, rate))
                    /\ RLt(FrameTime(i, rate), NoteEnd(n))

\* x and y are no further apart than one hop
WithinOneHop(x, y, rate) ==
    RLe(RSub(x, y), Rat(HOP_SIZE, rate)) /\ RLe(RSub(y, x), Rat(HOP_SIZE, rate))

\* C12: a tone bordered by unvoiced gaps yields exactly one note, which starts
\* within one hop of the tone's first frame, lasts its length within one hop,
\* and ends before the next note starts.
C12_ToneBecomesOneNote ==
    AllPositive(f0) =>
        \A a, b \in 1..Len(f0) :
            IsTone(f0, a, b, sr) =>
                \A ns \in NoteLists :
                    /\ Cardinality({k \in 1..Len(ns) : Covers(ns[k], a, b, sr)}) = 1
                    /\ \A k \in 1..Len(ns) :
                          Covers(ns[k], a, b, sr) =>
                              /\ WithinOneHop(ns[k].start, FrameTime(a, sr), sr)
                              /\ WithinOneHop(ns[k].duration,
                                              Rat((b - a + 1) * HOP_SIZE, sr), sr)
                              /\ k < Len(ns) =>
                                    RLt(NoteEnd(ns[k]), ns[k + 1].start)

\* C13: a filtered value that is absent, zero or negative is quantized to
\* absent, so that no committed note contains its frame, every committed
\* note's midi is a finite integer, and no committed note contains two
\* voiced frames of different pitch.
C13_NonPositiveIsAbsent ==
    \A ns \in NoteLists : \A k \in 1..Len(ns) :
        /\ IsFinite(ns[k].midi) /\ ns[k].midi[2] = 1
        /\ \A i \in 1..Len(f0Med[1]) :
              Covers(ns[k], i, i, sr) => RLt(RInt(0), f0Med[1][i])
        /\ \A i \in 1..(Len(f0Med[1]) - 1) :
              (/\ RLt(RInt(0), f0Med[1][i]) /\ RLt(RInt(0), f0Med[1][i + 1])
               /\ RoundedMidi(f0Med[1][i]) # RoundedMidi(f0Med[1][i + 1]))
                  => ~(Covers(ns[k], i, i, sr) /\ Covers(ns[k], i + 1, i + 1, sr))

---------------------------------------------------------------------------
(* Properties of medianFilter *)

\* the indices (1-based) of the window around index i, clipped to 1..n
Window(i, n, win) == {j \in 1..n : Abs(j - i) <= win \div 2}
\* those of them that hold a finite value
FiniteIn(arr, i, win) == {j \in Window(i, Len(arr), win) : IsFinite(arr[j])}

\* C14: medianFilter returns an array of the input's length, whose entry at i
\* is NaN if and only if the clipped window around i holds no finite value.
C14_LengthAndAbsence ==
    mfOut # Null =>
        /\ Len(mfOut[1]) = Len(mfArr)
        /\ \A i \in 1..Len(mfArr) :
              IsNaN(mfOut[1][i]) <=> FiniteIn(mfArr, i, mfWin) = {}

\* C14 witness: an array with finite and non-finite entries was filtered with
\* a window that is clipped at one index and whole at another, and the output
\* has a NaN and a number
C14_Witness ==
    /\ mfOut # Null
    /\ \E i, j \in 1..Len(mfArr) :
          /\ IsNaN(mfOut[1][i]) /\ IsFinite(mfOut[1][j])
          /\ Cardinality(Window(i, Len(mfArr), mfWin))
                < Cardinality(Window(j, Len(mfArr), mfWin))
          /\ ~IsFinite(mfArr[j])

\* v has rank r (0-based) among the values of arr at the indices J, sorted
\* ascending
HasRank(arr, J, v, r) ==
    /\ \E j \in J : arr[j] = v
    /\ Cardinality({j \in J : RLt(arr[j], v)}) <= r
    /\ r < Cardinality({j \in J : RLe(arr[j], v)})

\* C20: the output at i is the lower median of the k finite values of the
\* clipped window: the element of rank floor((k-1)/2), for an even k the
\* smaller of the two middle values.
C20_LowerMedian ==
    mfOut # Null =>
        \A i \in 1..Len(mfArr) :
            LET J == FiniteIn(mfArr, i, mfWin)
            IN  J # {} => HasRank(mfArr, J, mfOut[1][i], (Cardinality(J) - 1) \div 2)

\* C20, amended: the output at i is the element of rank floor(k/2) of the k
\* finite values of the clipped window, for an even k the larger of the two
\* middle values.
C20_UpperMedian ==
    mfOut # Null =>
        \A i \in 1..Len(mfArr) :
            LET J == FiniteIn(mfArr, i, mfWin)
            IN  J # {} => HasRank(mfArr, J, mfOut[1][i], Cardinality(J) \div 2)

\* C20 witness: a window with an even number of finite values whose two
\* middle values differ, and the output is the larger one
C20_Witness ==
    /\ mfOut # Null
    /\ \E i \in 1..Len(mfArr) :
          LET J == FiniteIn(mfArr, i, mfWin)
              k == Cardinality(J)
          IN  /\ k >= 2 /\ k % 2 = 0
              /\ Cardinality({j \in J : RLt(mfArr[j], mfOut[1][i])}) = k \div 2

---------------------------------------------------------------------------
(* Properties of the note names *)

\* the integer a MIDI number of the bounds is rounded to
NearestInteger(x) == IF x[2] = 1 THEN x[1] ELSE (x[1] + 1) \div 2

\* C15: for every integer m, negative ones included, midiToNoteName gives the
\* name of a pitch class idx in 0..11 and an octave with 12 * (octave + 1) +
\* idx = m (C4 for 60, A4 for 69), and midiToSolfeggio gives the syllable of
\* the same idx; neither leaves its table.
C15_NameAndOctave ==
    LET m == NearestInteger(midi)
    IN  /\ noteName # Null =>
              /\ \E idx \in 0..11 :
                    /\ noteName[1].name = NoteNames[idx + 1]
                    /\ 12 * (noteName[1].octave + 1) + idx = m
                    /\ solfeggio # Null => solfeggio[1] = SolfeggioNames[idx + 1]
              /\ m = 60 => noteName[1] = [name |-> "C", octave |-> 4]
              /\ m = 69 => noteName[1] = [name |-> "A", octave |-> 4]
        /\ solfeggio # Null =>
              \E idx \in 0..11 : solfeggio[1] = SolfeggioNames[idx + 1]

\* C15 witness: both functions were called on a negative MIDI number that is
\* no multiple of 12
C15_Witness ==
    /\ noteName # Null /\ solfeggio # Null
    /\ NearestInteger(midi) < 0
    /\ noteName[1].name = "A#" /\ noteName[1].octave < -1

---------------------------------------------------------------------------
(* Properties of the timestamps and of the live history *)

\* C16: the point a tick emits after start(o) has tSec = o + (the clock at
\* the tick - the clock at the start call); with o >= 0 this is at least o,
\* and no smaller than the tSec of the previous tick of the same run.
C16_TSecFromOffset ==
    [][(inTick = Null /\ inTick' # Null) =>
          /\ emitted'[1].tSec = startOffset + (now - startClock)
          /\ startOffset >= 0 /\ emitted'[1].tSec >= startOffset
          /\ (emitted # Null /\ emittedRun = runs) =>
                emitted'[1].tSec >= emitted[1].tSec]_vars

\* C16 witness: a run started at a positive offset has emitted a point after
\* the clock moved on from the start call
C16_Witness ==
    /\ inTick # Null /\ emitted # Null
    /\ startOffset > 0 /\ now > startClock
    /\ emitted[1].tSec > startOffset

\* C17: after every appended point p, each point x the live history retains
\* has p.tSec - 30 <= x.tSec <= p.tSec, over every sequence of practice runs.
C17_LiveWithinWindow ==
    live # <<>> =>
        LET p == live[Len(live)]
        IN  \A k \in 1..Len(live) :
                /\ p.tSec - LIVE_WINDOW <= live[k].tSec
                /\ live[k].tSec <= p.tSec

---------------------------------------------------------------------------
(* Properties of yin's threshold search and cmnd *)

\* the lags of the search range whose cmnd is below the threshold
LagsBelow(f, c) ==
    {t \in MinLag(c)..MaxLag(c) : RLt(YinCmnd(f, c)[t], c.threshold)}

\* C18: the search takes the smallest lag of minLag..maxLag whose cmnd is
\* below the threshold, even when a later lag has a smaller cmnd; the result
\* is freqHz absent with probability 0 exactly when there is no such lag.
C18_FirstLagBelow ==
    (yinOut # Null /\ ValidConfig(cfg)) =>
        LET r == yinOut[1]
            below == LagsBelow(frame, cfg)
        IN  /\ (below = {}) <=> (r.freqHz = Null /\ r.probability = RInt(0))
            /\ below = {} => r.tau = -1
            /\ below # {} => (r.tau \in below /\ \A u \in below : r.tau <= u)

\* C18 witness: the lag taken is followed by a lag with a smaller cmnd
C18_Witness ==
    /\ yinOut # Null /\ ValidConfig(cfg) /\ yinOut[1].tau # -1
    /\ \E u \in LagsBelow(frame, cfg) :
          /\ u > yinOut[1].tau
          /\ RLt(YinCmnd(frame, cfg)[u], YinCmnd(frame, cfg)[yinOut[1].tau])

\* C19: where the running sum of d(1..tau) is zero, cmnd(tau) is 0, and cmnd
\* holds no NaN at any lag.
C19_ZeroSumCmndIsZero ==
    (yinOut # Null /\ ValidConfig(cfg) /\ yinOut[1].status = "ok") =>
        \A tau \in 1..MaxLag(cfg) :
            /\ ~IsNaN(YinCmnd(frame, cfg)[tau])
            /\ RunningSum(YinDiff(frame, cfg), tau) = 0 =>
                  YinCmnd(frame, cfg)[tau] = RInt(0)

---------------------------------------------------------------------------
(* Properties of the framing loops *)

\* the offsets of the windows that fit in a buffer of len samples
FittingOffsets(len) == {i \in 0..len : i % HOP_SIZE = 0 /\ i + FRAME_SIZE <= len}

\* C21: for a buffer of L samples one F0 entry is produced for each offset
\* i = 0, 512, 1024, ... with i + 2048 <= L: floor((L - 2048) / 512) + 1
\* entries when L >= 2048 and none when L < 2048.
C21_OneEntryPerFittingWindow ==
    \A st \in {startsHF, startsAP} \ {Null} :
        /\ {st[1][k] : k \in 1..Len(st[1])} = FittingOffsets(bufLen)
        /\ Len(st[1]) = IF bufLen >= FRAME_SIZE
                        THEN ((bufLen - FRAME_SIZE) \div HOP_SIZE) + 1
                        ELSE 0

---------------------------------------------------------------------------
(* Properties of the segmentation as a whole *)

\* the quantized pitch of every frame of a filtered sequence
Quantized(med) == [i \in 1..Len(med) |-> QuantizeHF(med[i])]

\* frames a..b of q are a maximal run of one present pitch
IsRun(q, a, b) ==
    /\ a <= b /\ q[a] # Null
    /\ \A i \in a..b : q[i] = q[a]
    /\ a > 1 => q[a - 1] # q[a]
    /\ b < Len(q) => q[b + 1] # q[a]

\* the notes of the maximal runs of q that last at least 0.08 s
RunNotes(q, rate) ==
    {[start |-> Rat((a - 1) * HOP_SIZE, rate),
      duration |-> Rat((b - a + 1) * HOP_SIZE, rate),
      midi |-> q[a]] :
        <<a, b>> \in {r \in (1..Len(q)) \X (1..Len(q)) :
                         /\ IsRun(q, r[1], r[2])
                         /\ RLe(MinNoteDuration,
                                Rat((r[2] - r[1] + 1) * HOP_SIZE, rate))}}

\* C22: the committed notes are, in order, the maximal runs of consecutive
\* equal present pitch values of the quantized sequence, each from its first
\* frame and as long as the run, that last at least 0.08 s.
C22_NotesAreRuns ==
    \A ns \in NoteLists :
        /\ {ns[k] : k \in 1..Len(ns)} = RunNotes(Quantized(f0Med[1]), sr)
        /\ \A k \in 1..(Len(ns) - 1) : RLt(ns[k].start, ns[k + 1].start)

\* C23: handleFile and analyzePart commit the same sequence of (start,
\* duration, midi) records for every filtered sequence and sample rate.
C23_SameNotes ==
    (notesHF # Null /\ notesAP # Null) => notesHF[1] = notesAP[1]

\* C23 witness: both ran on a filtered sequence with an absent and a
\* negative entry and committed a note
C23_Witness ==
    /\ notesHF # Null /\ notesAP # Null
    /\ Len(notesHF[1]) >= 1 /\ Len(notesAP[1]) >= 1
    /\ \E i, j \in 1..Len(f0Med[1]) :
          IsNaN(f0Med[1][i]) /\ RLt(f0Med[1][j], RInt(0))

\* C23 witness, zero: both ran on a filtered sequence with an entry of 0 Hz
\* and committed a note for it
C23_WitnessZero ==
    /\ notesHF # Null /\ notesAP # Null
    /\ \E i \in 1..Len(f0Med[1]) : f0Med[1][i] = RInt(0)
    /\ \E k \in 1..Len(notesAP[1]) : notesAP[1][k].midi = <<-1, 0>>

---------------------------------------------------------------------------
(* Properties of the tracker's smoothing *)

\* what a tick on estimate res emits and stores when the state was prev
SmoothedFreq(prev, res) ==
    IF prev = Null THEN res.freqHz
    ELSE RAdd(RMul(<<3, 4>>, prev), RMul(<<1, 4>>, res.freqHz))

\* C24: the smoothing state is changed only by voiced ticks: a voiced tick on
\* estimate f emits and stores 0.75 * prev + 0.25 * f, or f without a previous
\* state; an unvoiced tick emits freq absent with the estimate's probability
\* and leaves the state as it is; stop() and start() leave it as it is.
C24_SmoothingState ==
    [][IF inTick = Null /\ inTick' # Null
       THEN \E f \in TickFrames :
               LET res == Yin(f, TrackerConfig)
               IN  /\ emitted'[1].prob = res.probability
                   /\ IF res.freqHz # Null
                      THEN /\ emitted'[1].freq = SmoothedFreq(lastEma, res)
                           /\ lastEma' = SmoothedFreq(lastEma, res)
                      ELSE /\ emitted'[1].freq = Null
                           /\ lastEma' = lastEma
       ELSE lastEma' = lastEma]_vars

\* C24 witness: the first run blended two voiced estimates into the state,
\* and after stop() and the second start(), before any tick of the second
\* run, the state is still that blend
C24_Witness ==
    /\ runs = 2 /\ emittedRun = 1 /\ inTick = Null
    /\ lastEma # Null
    /\ \A f \in TickFrames : Yin(f, TrackerConfig).freqHz # lastEma

---------------------------------------------------------------------------
(* Properties of yin's probability and frequency *)

\* C25: when a lag is found, 1 - threshold < probability <= 1; so with
\* probabilityThreshold <= 1 - threshold the gate never rejects, and every
\* unvoiced result has probability 0.
C25_GateNeverRejects ==
    (yinOut # Null /\ ValidConfig(cfg)) =>
        LET r == yinOut[1]
            floor == RSub(RInt(1), cfg.threshold)
        IN  /\ r.tau # -1 =>
                  (RLt(floor, r.probability) /\ RLe(r.probability, RInt(1)))
            /\ RLe(cfg.probabilityThreshold, floor) =>
                  /\ r.tau # -1 => r.freqHz # Null
                  /\ r.freqHz = Null => r.probability = RInt(0)

\* C25 witness: probabilityThreshold = 1 - threshold, a lag was found with a
\* probability below 1, and the result is voiced
C25_Witness ==
    /\ yinOut # Null /\ ValidConfig(cfg)
    /\ RAdd(cfg.probabilityThreshold, cfg.threshold) = RInt(1)
    /\ yinOut[1].tau # -1 /\ yinOut[1].freqHz # Null
    /\ RLt(yinOut[1].probability, RInt(1))

\* C26: a present freqHz lies in the search band:
\* sampleRate / maxLag <= freqHz <= sampleRate / minLag.
C26_FreqInBand ==
    (yinOut # Null /\ ValidConfig(cfg) /\ yinOut[1].freqHz # Null) =>
        /\ RLe(Rat(cfg.sampleRate, MaxLag(cfg)), yinOut[1].freqHz)
        /\ RLe(yinOut[1].freqHz, Rat(cfg.sampleRate, MinLag(cfg)))

---------------------------------------------------------------------------
(* Properties of the practice runs *)

\* C27: whenever the source of the current run, the one whose startPractice
\* completed last, is playing, isPlaying is true and the run's tracker is
\* running: the 'ended' handler of an earlier run does not touch it.
C27_StaleEndedHarmless ==
    (app.current # Null /\ app.current[1] \in app.playing) =>
        (app.isPlaying /\ app.current[1] \in app.running)

\* C28: at most one source is playing, every playing source is the one
\* sourceRef holds, and at most one tracker is running, wherever the
\* startPractice invocations are suspended.
C28_OneSourceOneTracker ==
    /\ Cardinality(app.playing) <= 1
    /\ \A s \in app.playing : app.sourceRef = <<s>>
    /\ Cardinality(app.running) <= 1

=============================================================================
